---- MODULE Spec2Model ----
(***************************************************************************)
(* Model of the class-scheduling application in src/app.py: the overlap    *)
(* checks (check_self_overlap, check_db_conflicts), the construction of    *)
(* the sessions of a submitted class, the submit handler (preconditions,   *)
(* self check, repository check, insert, reload) and the delete handler,   *)
(* run by several user sessions against one 'cronograma' table.            *)
(*                                                                         *)
(* Text fields that the code formats, slices or parses (catalog code,      *)
(* class title, program, session ID) are sequences of one-character        *)
(* strings.  Times of day are minutes since midnight; dates are day        *)
(* numbers inside the fixed semester.                                      *)
(***************************************************************************)
EXTENDS Integers, Sequences, FiniteSets, TLC

VARIABLES
    db,           \* rows of the table 'cronograma', in stored order
    cache,        \* st.cache_data entry of load_schedule_data: <<>> or <<table>>
    schedule_df,  \* per user session: <<>> (not started) or <<table>>
    last,         \* the most recent script step: its handler, its outcome, the rows
                  \* it prepared for insertion, how many conflicts it listed
    loadFailed,   \* history: some load_schedule_data call took its except branch
    fn            \* inputs and results of the validation functions run alone

vars == <<db, cache, schedule_df, last, loadFailed, fn>>

----------------------------------------------------------------------------
(* Sequences and text *)

Range(s) == {s[i] : i \in 1..Len(s)}

RECURSIVE Concat(_)
Concat(ss) == IF ss = <<>> THEN <<>> ELSE Head(ss) \o Concat(Tail(ss))

Take(s, n) == SubSeq(s, 1, IF Len(s) < n THEN Len(s) ELSE n)

Drop(s, n) == SubSeq(s, n + 1, Len(s))

\* str.replace(' ', '')
RECURSIVE RemoveSpaces(_)
RemoveSpaces(s) ==
    IF s = <<>> THEN <<>>
    ELSE IF Head(s) = " " THEN RemoveSpaces(Tail(s))
    ELSE <<Head(s)>> \o RemoveSpaces(Tail(s))

\* Index of the first occurrence of sep in s, 0 when there is none.
RECURSIVE FindFrom(_, _, _)
FindFrom(s, sep, i) ==
    IF i + Len(sep) - 1 > Len(s) THEN 0
    ELSE IF SubSeq(s, i, i + Len(sep) - 1) = sep THEN i
    ELSE FindFrom(s, sep, i + 1)

\* str.split(sep): the list of the pieces of s between occurrences of sep.
RECURSIVE Split(_, _)
Split(s, sep) ==
    LET i == FindFrom(s, sep, 1)
    IN  IF i = 0 THEN <<s>>
        ELSE <<SubSeq(s, 1, i - 1)>> \o Split(Drop(s, i + Len(sep) - 1), sep)

\* Decimal digits of a positive integer, as str(n) gives them.
RECURSIVE Digits(_)
Digits(n) ==
    LET d == <<"0", "1", "2", "3", "4", "5", "6", "7", "8", "9">>
    IN  IF n < 10 THEN <<d[n + 1]>> ELSE Digits(n \div 10) \o <<d[(n % 10) + 1]>>

\* SQL LIKE: '%' matches any run of characters, '_' any one character.
RECURSIVE Like(_, _)
Like(s, p) ==
    IF p = <<>> THEN s = <<>>
    ELSE IF Head(p) = "%"
         THEN Like(s, Tail(p)) \/ (s # <<>> /\ Like(Tail(s), p))
    ELSE s # <<>> /\ (Head(p) = "_" \/ Head(p) = Head(s)) /\ Like(Tail(s), Tail(p))

----------------------------------------------------------------------------
(* Times of day *)

MinutesPerDay == 1440

T(h, m) == h * 60 + m

\* get_time_options: 07:00, 07:30, ..., 18:30, 19:00, in that order.
get_time_options ==
    Concat([k \in 1..12 |-> <<T(k + 6, 0), T(k + 6, 30)>>]) \o <<T(19, 0)>>

\* (datetime.combine(today, hora_inicio) + Timedelta(hours=duracion)).time():
\* the time of day of the sum, the date part dropped.
hora_fin(hora_inicio, duracion) == (hora_inicio + duracion * 60) % MinutesPerDay

\* astype(str) of a datetime.time: 'HH:MM:SS'.
TimeStr(t) == <<t \div 60, t % 60, 0>>

\* pd.to_datetime(..., format='%H:%M:%S').dt.time
ParseTime(s) == s[1] * 60 + s[2]

----------------------------------------------------------------------------
(* Validation functions *)

\* Mutation of Combinations2: every ordered pair of two different rows.
Permutations2(n) ==
    LET Other(i) == SelectSeq([k \in 1..n |-> k], LAMBDA j : j # i)
    IN  Concat([i \in 1..n |-> [k \in 1..(n - 1) |-> <<i, Other(i)[k]>>]])

\* itertools.combinations(range(1, n+1), 2): the pairs <<i, j>> with i < j, by i
\* ascending and then j ascending.
Combinations2(n) ==
    Concat([i \in 1..n |-> [k \in 1..(n - i) |-> <<i, i + k>>]])

\* The test of check_self_overlap on two rows of the submitted sessions.
SelfOverlap(row1, row2) ==
    /\ row1.Fecha = row2.Fecha
    /\ row1.HoraInicio < row2.HoraFin
    /\ row2.HoraInicio < row1.HoraFin

ConflictoInterno(i, j, row1) ==
    [kind |-> "Interno", s1 |-> i, s2 |-> j, Fecha |-> row1.Fecha]

\* check_self_overlap(df): one message per overlapping pair, in pair order.
check_self_overlap(df) ==
    LET pairs == Combinations2(Len(df))
        Hit(p) == SelfOverlap(df[p[1]], df[p[2]])
        hits == SelectSeq(pairs, Hit)
    IN  [k \in 1..Len(hits) |-> ConflictoInterno(hits[k][1], hits[k][2], df[hits[k][1]])]

\* existing_df[existing_df['Fecha'] == row['Fecha']]
DaySchedule(existing_df, row) ==
    LET SameDay(e) == e.Fecha = row.Fecha
    IN  SelectSeq(existing_df, SameDay)

\* Mutation of TimesCross: sessions that only touch count as crossing.
TimesCrossInclusive(e, row) ==
    /\ e.HoraInicio <= row.HoraFin
    /\ e.HoraFin >= row.HoraInicio

\* The time part of both filters of check_db_conflicts.
TimesCross(e, row) ==
    /\ e.HoraInicio < row.HoraFin
    /\ e.HoraFin > row.HoraInicio

ProfMatch(e, row) ==
    /\ e.Profesor = row.Profesor
    /\ TimesCross(e, row)

\* Mutation of StudentMatch: the flag of the committed session is not read.
StudentMatchAnyFlag(e, row) ==
    /\ e.Programa = row.Programa
    /\ e.Semestre = row.Semestre
    /\ TimesCross(e, row)

StudentMatch(e, row) ==
    /\ e.Programa = row.Programa
    /\ e.Semestre = row.Semestre
    /\ TimesCross(e, row)
    /\ e.Simultaneo = FALSE

CruceProfesor(row, info) ==
    [kind |-> "Profesor", Profesor |-> row.Profesor, Nombre |-> info.Nombre,
     Fecha |-> row.Fecha, HoraInicio |-> info.HoraInicio, HoraFin |-> info.HoraFin]

CruceEstudiantes(row, info) ==
    [kind |-> "Estudiantes", Programa |-> row.Programa, Semestre |-> info.Semestre,
     Nombre |-> info.Nombre, Fecha |-> row.Fecha,
     HoraInicio |-> info.HoraInicio, HoraFin |-> info.HoraFin]

\* Mutation of ProfConflicts: every matching session is reported.
ProfConflictsAll(row, day_schedule) ==
    LET Test(e) == ProfMatch(e, row)
        prof_conflict == SelectSeq(day_schedule, Test)
    IN  [k \in 1..Len(prof_conflict) |-> CruceProfesor(row, prof_conflict[k])]

\* Mutation of ProfConflicts: the last matching session is the one reported.
ProfConflictsLast(row, day_schedule) ==
    LET Test(e) == ProfMatch(e, row)
        prof_conflict == SelectSeq(day_schedule, Test)
    IN  IF prof_conflict # <<>>
        THEN <<CruceProfesor(row, prof_conflict[Len(prof_conflict)])>>
        ELSE <<>>

\* The instructor part of one iteration of the loop of check_db_conflicts.
ProfConflicts(row, day_schedule) ==
    LET Test(e) == ProfMatch(e, row)
        prof_conflict == SelectSeq(day_schedule, Test)
    IN  IF prof_conflict # <<>> THEN <<CruceProfesor(row, prof_conflict[1])>> ELSE <<>>

\* The cohort part of one iteration of the loop of check_db_conflicts.
StudentConflicts(row, day_schedule) ==
    IF ~row.Simultaneo
    THEN LET Test(e) == StudentMatch(e, row)
             student_conflict == SelectSeq(day_schedule, Test)
         IN  IF student_conflict # <<>>
             THEN <<CruceEstudiantes(row, student_conflict[1])>>
             ELSE <<>>
    ELSE <<>>

\* One iteration of the loop of check_db_conflicts: what it appends for row.
RowConflicts(row, existing_df) ==
    LET day_schedule == DaySchedule(existing_df, row)
    IN  IF day_schedule = <<>> THEN <<>>
        ELSE ProfConflicts(row, day_schedule) \o StudentConflicts(row, day_schedule)

\* Mutation of check_db_conflicts: the loop stops after the first new session
\* that has findings.
check_db_conflicts_until_found(new_class_df, existing_df) ==
    LET found == [k \in 1..Len(new_class_df) |-> RowConflicts(new_class_df[k], existing_df)]
        Hit(c) == c # <<>>
        hits == SelectSeq(found, Hit)
    IN  IF existing_df = <<>> \/ hits = <<>> THEN <<>> ELSE hits[1]

\* check_db_conflicts(new_class_df, existing_df)
check_db_conflicts(new_class_df, existing_df) ==
    IF existing_df = <<>> THEN <<>>
    ELSE Concat([k \in 1..Len(new_class_df) |-> RowConflicts(new_class_df[k], existing_df)])

----------------------------------------------------------------------------
(* The submitted class: form inputs, sessions, rows *)

\* A form is [nombre_clase, catalogo, descripcion, programa, semestre, simultaneo,
\* tipo_clase, modulos]; modulos is a list of [Profesor, sesiones], sesiones a list
\* of [Fecha, hora_inicio, duracion].  A Regular class has the one module.

\* One entry of sesiones_data.
Sesion(profesor, modulo, sesion, in) ==
    [Profesor |-> profesor, Modulo |-> modulo, Sesion |-> sesion,
     Fecha |-> in.Fecha, HoraInicio |-> in.hora_inicio,
     HoraFin |-> hora_fin(in.hora_inicio, in.duracion)]

\* Regular: sessions i = 0..n-1, all with profesor_regular, module 1, number i + 1.
RegularSesiones(mod) ==
    [i \in 1..Len(mod.sesiones) |-> Sesion(mod.Profesor, 1, i, mod.sesiones[i])]

\* Mutation of ModularSesiones: sesion_counter is set to 1 inside the loop
\* over the modules.
RECURSIVE ModularSesionesPerModule(_, _, _)
ModularSesionesPerModule(modulos, i, sesion_counter) ==
    IF i > Len(modulos) THEN <<>>
    ELSE LET mod == modulos[i]
             n == Len(mod.sesiones)
         IN  [j \in 1..n |-> Sesion(mod.Profesor, i, j, mod.sesiones[j])]
             \o ModularSesionesPerModule(modulos, i + 1, 1)

\* Modular: modules in order, sesion_counter running across the modules.
RECURSIVE ModularSesiones(_, _, _)
ModularSesiones(modulos, i, sesion_counter) ==
    IF i > Len(modulos) THEN <<>>
    ELSE LET mod == modulos[i]
             n == Len(mod.sesiones)
         IN  [j \in 1..n |-> Sesion(mod.Profesor, i, sesion_counter + j - 1, mod.sesiones[j])]
             \o ModularSesiones(modulos, i + 1, sesion_counter + n)

\* sesiones_data as the form builds it.
SesionesData(f) ==
    IF f.tipo_clase = "Regular" THEN RegularSesiones(f.modulos[1])
    ELSE ModularSesiones(f.modulos, 1, 1)

\* f"{catalogo}-{nombre_clase.replace(' ', '')[:5]}-S{sesion}"
SessionID(catalogo, nombre_clase, sesion) ==
    catalogo \o <<"-">> \o Take(RemoveSpaces(nombre_clase), 5) \o <<"-", "S">> \o Digits(sesion)

\* One element of records (the columns the checks and the delete form read).
Record(f, s) ==
    [ID |-> SessionID(f.catalogo, f.nombre_clase, s.Sesion),
     Catalogo |-> f.catalogo, Nombre |-> f.nombre_clase, Programa |-> f.programa,
     Semestre |-> f.semestre, Profesor |-> s.Profesor, Simultaneo |-> f.simultaneo,
     Modulo |-> s.Modulo, Sesion |-> s.Sesion, Fecha |-> s.Fecha,
     HoraInicio |-> s.HoraInicio, HoraFin |-> s.HoraFin]

Records(f, sesiones_data) ==
    [k \in 1..Len(sesiones_data) |-> Record(f, sesiones_data[k])]

\* The row as inserted: the time columns as text (the date column, also sent as
\* text and parsed back on load, stays the day number).
StoredRow(r) ==
    [r EXCEPT !.HoraInicio = TimeStr(@), !.HoraFin = TimeStr(@)]

\* The row as load_schedule_data returns it: the time columns parsed.
LoadedRow(r) ==
    [r EXCEPT !.HoraInicio = ParseTime(@), !.HoraFin = ParseTime(@)]

Stored(final_df) == [k \in 1..Len(final_df) |-> StoredRow(final_df[k])]

Loaded(table) == [k \in 1..Len(table) |-> LoadedRow(table[k])]

----------------------------------------------------------------------------
(* The submit handler up to its decision *)

LatestEnd == T(19, 0)

\* not all([descripcion, catalogo, nombre_clase, programa])
GeneralDataMissing(f) ==
    \/ f.descripcion = <<>>
    \/ f.catalogo = <<>>
    \/ f.nombre_clase = <<>>
    \/ f.programa = <<>>

\* Mutation of EndsTooLate: the start of the session is compared, not its end.
StartsTooLate(sesiones_data) ==
    \E k \in 1..Len(sesiones_data) : sesiones_data[k].HoraInicio > LatestEnd

\* any(s['Hora de finalizacion'] > time(19, 0) for s in sesiones_data)
EndsTooLate(sesiones_data) ==
    \E k \in 1..Len(sesiones_data) : sesiones_data[k].HoraFin > LatestEnd

\* any(not s['Profesor'] for s in sesiones_data)
ProfesorMissing(sesiones_data) ==
    \E k \in 1..Len(sesiones_data) : sesiones_data[k].Profesor = ""

Decision(outcome, calls, self_conflicts, db_conflicts, final_df) ==
    [outcome |-> outcome, calls |-> calls, self_conflicts |-> self_conflicts,
     db_conflicts |-> db_conflicts, final_df |-> final_df]

\* Mutation of Validate: once the preconditions hold both checks run and all
\* their findings are reported.
ValidateAllChecks(f, existing_df) ==
    LET sesiones_data == SesionesData(f)
    IN  IF GeneralDataMissing(f) THEN Decision("general", <<>>, <<>>, <<>>, <<>>)
        ELSE IF EndsTooLate(sesiones_data) THEN Decision("late", <<>>, <<>>, <<>>, <<>>)
        ELSE IF ProfesorMissing(sesiones_data) THEN Decision("profesor", <<>>, <<>>, <<>>, <<>>)
        ELSE LET self_conflicts == check_self_overlap(sesiones_data)
                 final_df == Records(f, sesiones_data)
                 db_conflicts == check_db_conflicts(final_df, existing_df)
                 calls == <<"check_self_overlap", "check_db_conflicts">>
             IN  IF self_conflicts # <<>>
                 THEN Decision("self", calls, self_conflicts, db_conflicts, <<>>)
                 ELSE IF db_conflicts # <<>>
                      THEN Decision("db", calls, <<>>, db_conflicts, <<>>)
                      ELSE Decision("insert", calls, <<>>, <<>>, final_df)

\* The body of "if submit_button:" down to the choice between reporting and
\* inserting.  calls lists the validation functions in the order they were called;
\* self_conflicts and db_conflicts are the lists shown to the user.
Validate(f, existing_df) ==
    LET sesiones_data == SesionesData(f)
    IN  IF GeneralDataMissing(f) THEN Decision("general", <<>>, <<>>, <<>>, <<>>)
        ELSE IF EndsTooLate(sesiones_data) THEN Decision("late", <<>>, <<>>, <<>>, <<>>)
        ELSE IF ProfesorMissing(sesiones_data) THEN Decision("profesor", <<>>, <<>>, <<>>, <<>>)
        ELSE LET self_conflicts == check_self_overlap(sesiones_data)
             IN  IF self_conflicts # <<>>
                 THEN Decision("self", <<"check_self_overlap">>, self_conflicts, <<>>, <<>>)
                 ELSE LET final_df == Records(f, sesiones_data)
                          db_conflicts == check_db_conflicts(final_df, existing_df)
                          calls == <<"check_self_overlap", "check_db_conflicts">>
                      IN  IF db_conflicts # <<>>
                          THEN Decision("db", calls, <<>>, db_conflicts, <<>>)
                          ELSE Decision("insert", calls, <<>>, <<>>, final_df)

----------------------------------------------------------------------------
(* Repository calls and the delete form *)

\* Mutation of InsertRows: the rows are sent one request each and the requests
\* after the first are lost.
InsertFirstRow(table, rows) == table \o Take(rows, 1)

\* supabase.table('cronograma').insert(records).execute(): one request, the rows
\* appended together in the order given.
InsertRows(table, rows) == table \o rows

\* supabase.table('cronograma').delete().like('ID', pattern).execute()
DeleteLike(table, pattern) ==
    LET Keep(r) == ~Like(r.ID, pattern)
    IN  SelectSeq(table, Keep)

\* The class of a row as the delete form lists it:
\* schedule_df[['Nombre de la clase', '# de Catalogo', 'Programa']].
ClassOf(r) == [Nombre |-> r.Nombre, Catalogo |-> r.Catalogo, Programa |-> r.Programa]

\* f"{Nombre de la clase} ({# de Catalogo} - {Programa})"
ClassDisplay(c) ==
    c.Nombre \o <<" ", "(">> \o c.Catalogo \o <<" ", "-", " ">> \o c.Programa \o <<")">>

\* class_options_delete: one option per distinct class of the snapshot.
ClassOptionsDelete(table) == {ClassDisplay(ClassOf(r)) : r \in Range(table)}

\* class_to_delete_display.split('(')[1].split(' - ')[0]
CatalogoToDelete(class_to_delete_display) ==
    Split(Split(class_to_delete_display, <<"(">>)[2], <<" ", "-", " ">>)[1]

\* f'{catalogo_to_delete}%'
DeletePattern(class_to_delete_display) ==
    CatalogoToDelete(class_to_delete_display) \o <<"%">>

\* The table after the delete handler's request for the chosen option.
DeleteClass(table, class_to_delete_display) ==
    DeleteLike(table, DeletePattern(class_to_delete_display))

----------------------------------------------------------------------------
(* Bounds and input domains of the system *)

MaxDb == 2

\* Two user sessions: the least number whose script runs can interleave.
Users == {"u1", "u2"}

Txt_M1 == <<"M", "1">>

Txt_M10 == <<"M", "1", "0">>

Txt_Algebra == <<"A", "l", "g", "e", "b", "r", "a">>

Txt_Algebra2 == <<"A", "l", "g", "e", "b", "r", "a", " ", "2">>

Txt_NA == <<"N", "/", "A">>

Txt_MBA == <<"M", "B", "A">>

\* Lists of 1..n elements of S.
SeqsUpTo(S, n) == UNION {[1..k -> S] : k \in 1..n}

\* Date, start and duration inputs of two sessions: 08:00-09:00 and 09:00-10:00
\* on the one day.
In_a == [Fecha |-> 1, hora_inicio |-> T(8, 0), duracion |-> 1]

In_b == [Fecha |-> 1, hora_inicio |-> T(9, 0), duracion |-> 1]

\* Regular classes of one program and semester, simultaneity not allowed, with
\* the general data filled in: no instructor or one of two, one session, two
\* sessions that abut, or the same session twice.
Forms ==
    {[nombre_clase |-> Txt_Algebra, catalogo |-> Txt_M1, descripcion |-> Txt_NA,
      programa |-> Txt_MBA, semestre |-> 1, simultaneo |-> FALSE,
      tipo_clase |-> "Regular", modulos |-> <<[Profesor |-> p, sesiones |-> ss]>>] :
        p \in {"", "Garcia", "Lopez"},
        ss \in {<<In_a>>, <<In_b>>, <<In_a, In_b>>, <<In_a, In_a>>}}

Idle == [op |-> "none", outcome |-> "none", final_df |-> <<>>, conflicts |-> 0]

FnIdle == [call |-> "none"]

----------------------------------------------------------------------------
(* load_schedule_data behind st.cache_data *)

\* Mutation of LoadScheduleData: the except branch returns the rows all the same.
LoadScheduleDataIgnoresError(cached, table, load_ok) ==
    IF cached # <<>> THEN cached[1] ELSE Loaded(table)

\* The table a call returns: the cached one if there is one, else the fetched
\* rows parsed, or the empty table of the except branch.
LoadScheduleData(cached, table, load_ok) ==
    IF cached # <<>> THEN cached[1]
    ELSE IF load_ok THEN Loaded(table) ELSE <<>>

LoadFails(cached, load_ok) == cached = <<>> /\ ~load_ok

----------------------------------------------------------------------------
(* The system *)

Init ==
    /\ db = <<>>
    /\ cache = <<>>
    /\ schedule_df = [u \in Users |-> <<>>]
    /\ last = Idle
    /\ loadFailed = FALSE
    /\ fn = FnIdle

\* First script run of a user session: schedule_df is not in st.session_state yet.
StartSession(u, load_ok) ==
    /\ schedule_df[u] = <<>>
    /\ LET df == LoadScheduleData(cache, db, load_ok)
       IN  /\ schedule_df' = [schedule_df EXCEPT ![u] = <<df>>]
           /\ cache' = <<df>>
    /\ loadFailed' = (loadFailed \/ LoadFails(cache, load_ok))
    /\ last' = [op |-> "start", outcome |-> "loaded", final_df |-> <<>>, conflicts |-> 0]
    /\ UNCHANGED <<db, fn>>

\* st.cache_data(ttl=60): the cached table expires.
CacheExpire ==
    /\ cache # <<>>
    /\ cache' = <<>>
    /\ UNCHANGED <<db, schedule_df, last, loadFailed, fn>>

\* What a run of the submit handler shows: the st.error / st.success reached, the
\* number of st.warning lines under it, and the rows it prepared.
Report(d, outcome) ==
    [op |-> "submit", outcome |-> outcome, final_df |-> d.final_df,
     conflicts |-> Len(d.self_conflicts) + Len(d.db_conflicts)]

\* Mutation of Submit: the snapshot is reloaded at the end of every run of the
\* handler, also when the class was rejected.
SubmitAlwaysReloads(u, f, insert_ok, load_ok) ==
    /\ schedule_df[u] # <<>>
    /\ LET d == Validate(f, schedule_df[u][1])
           saved == d.outcome = "insert" /\ insert_ok
       IN  /\ saved => Len(db) + Len(d.final_df) <= MaxDb
           /\ db' = IF saved THEN InsertRows(db, Stored(d.final_df)) ELSE db
           /\ LET df == LoadScheduleData(<<>>, db', load_ok)
              IN  /\ schedule_df' = [schedule_df EXCEPT ![u] = <<df>>]
                  /\ cache' = <<df>>
           /\ loadFailed' = (loadFailed \/ ~load_ok)
           /\ last' = Report(d, IF saved THEN "saved"
                                ELSE IF d.outcome = "insert" THEN "save_error" ELSE d.outcome)
    /\ UNCHANGED fn

\* Mutation of Submit: the except branch around the insert is missing its
\* message and the run ends like a successful one.
SubmitSwallowsInsertError(u, f, insert_ok, load_ok) ==
    /\ schedule_df[u] # <<>>
    /\ LET d == Validate(f, schedule_df[u][1])
       IN  IF d.outcome = "insert" /\ insert_ok
           THEN /\ Len(db) + Len(d.final_df) <= MaxDb
                /\ db' = InsertRows(db, Stored(d.final_df))
                /\ LET df == LoadScheduleData(<<>>, db', load_ok)
                   IN  /\ schedule_df' = [schedule_df EXCEPT ![u] = <<df>>]
                       /\ cache' = <<df>>
                /\ loadFailed' = (loadFailed \/ ~load_ok)
                /\ last' = Report(d, "saved")
           ELSE /\ last' = Report(d, IF d.outcome = "insert" THEN "saved" ELSE d.outcome)
                /\ UNCHANGED <<db, cache, schedule_df, loadFailed>>
    /\ UNCHANGED fn

\* Mutation of Submit: after the insert the snapshot is left as it was.
SubmitNoReload(u, f, insert_ok, load_ok) ==
    /\ schedule_df[u] # <<>>
    /\ LET d == Validate(f, schedule_df[u][1])
       IN  IF d.outcome = "insert" /\ insert_ok
           THEN /\ Len(db) + Len(d.final_df) <= MaxDb
                /\ db' = InsertRows(db, Stored(d.final_df))
                /\ cache' = <<>>
                /\ last' = Report(d, "saved")
                /\ UNCHANGED <<schedule_df, loadFailed>>
           ELSE /\ last' = Report(d, IF d.outcome = "insert" THEN "save_error" ELSE d.outcome)
                /\ UNCHANGED <<db, cache, schedule_df, loadFailed>>
    /\ UNCHANGED fn

\* "Añadir Clase al Cronograma" pressed in user session u with form f.
Submit(u, f, insert_ok, load_ok) ==
    /\ schedule_df[u] # <<>>
    /\ LET d == Validate(f, schedule_df[u][1])
       IN  IF d.outcome = "insert" /\ insert_ok
           THEN /\ Len(db) + Len(d.final_df) <= MaxDb
                /\ db' = InsertRows(db, Stored(d.final_df))
                /\ LET df == LoadScheduleData(<<>>, db', load_ok)
                   IN  /\ schedule_df' = [schedule_df EXCEPT ![u] = <<df>>]
                       /\ cache' = <<df>>
                /\ loadFailed' = (loadFailed \/ ~load_ok)
                /\ last' = Report(d, "saved")
           ELSE /\ last' = Report(d, IF d.outcome = "insert" THEN "save_error" ELSE d.outcome)
                /\ UNCHANGED <<db, cache, schedule_df, loadFailed>>
    /\ UNCHANGED fn

\* "Eliminar Clase" pressed in user session u with the option chosen.
Delete(u, class_to_delete_display, delete_ok, load_ok) ==
    /\ schedule_df[u] # <<>>
    /\ schedule_df[u][1] # <<>>
    /\ class_to_delete_display \in ClassOptionsDelete(schedule_df[u][1])
    /\ IF delete_ok
       THEN /\ db' = DeleteClass(db, class_to_delete_display)
            /\ LET df == LoadScheduleData(<<>>, db', load_ok)
               IN  /\ schedule_df' = [schedule_df EXCEPT ![u] = <<df>>]
                   /\ cache' = <<df>>
            /\ loadFailed' = (loadFailed \/ ~load_ok)
            /\ last' = [op |-> "delete", outcome |-> "deleted", final_df |-> <<>>, conflicts |-> 0]
       ELSE /\ last' = [op |-> "delete", outcome |-> "delete_error", final_df |-> <<>>, conflicts |-> 0]
            /\ UNCHANGED <<db, cache, schedule_df, loadFailed>>
    /\ UNCHANGED fn

\* The steps of the system with forms drawn from F and the outcomes of
\* load_schedule_data's request drawn from L.
NextOf(F, L) ==
    \/ \E u \in Users, load_ok \in L : StartSession(u, load_ok)
    \/ CacheExpire
    \/ \E u \in Users, f \in F, insert_ok \in BOOLEAN, load_ok \in L :
          Submit(u, f, insert_ok, load_ok)
    \/ \E u \in Users, delete_ok \in BOOLEAN, load_ok \in L :
          /\ schedule_df[u] # <<>>
          /\ \E c \in ClassOptionsDelete(schedule_df[u][1]) : Delete(u, c, delete_ok, load_ok)

\* Every request of load_schedule_data succeeds.
Next == NextOf(Forms, {TRUE})

Spec == Init /\ [][Next]_vars

----------------------------------------------------------------------------
(* The validation functions run alone on bounded inputs *)

MaxNew == 3

MaxExisting == 2

Txt_MSc == <<"M", "S", "c">>

\* Lists of 0..n elements of S.
SeqsFrom0(S, n) == {<<>>} \cup SeqsUpTo(S, n)

\* Time intervals of rows: 08:00-10:00, 09:00-10:00, 10:00-11:00, 10:00-12:00 and
\* the interval 19:00-00:00 of a session that runs into midnight.
Interval(a, b) == [HoraInicio |-> a, HoraFin |-> b]

Intervals ==
    {Interval(T(8, 0), T(10, 0)), Interval(T(9, 0), T(10, 0)), Interval(T(10, 0), T(11, 0)),
     Interval(T(10, 0), T(12, 0)), Interval(T(19, 0), hora_fin(T(19, 0), 5))}

\* Rows of sesiones_data for check_self_overlap.
SelfRows ==
    {[Profesor |-> p, Modulo |-> 1, Sesion |-> 1, Fecha |-> d,
      HoraInicio |-> i.HoraInicio, HoraFin |-> i.HoraFin] :
        p \in {"Garcia", "Lopez"}, d \in {1, 2}, i \in Intervals}

Row(nombre, prof, prog, sem, sim, d, i) ==
    [ID |-> SessionID(Txt_M1, nombre, 1), Catalogo |-> Txt_M1, Nombre |-> nombre,
     Programa |-> prog, Semestre |-> sem, Profesor |-> prof, Simultaneo |-> sim,
     Modulo |-> 1, Sesion |-> 1, Fecha |-> d,
     HoraInicio |-> i.HoraInicio, HoraFin |-> i.HoraFin]

\* Rows of the snapshot: either day, 08:00-10:00 or 10:00-11:00, either
\* instructor, either program, either semester, with and without simultaneity.
ExistingRows ==
    {Row(Txt_Algebra, p, g, sem, sim, d, i) :
        p \in {"Garcia", "Lopez"}, g \in {Txt_MBA, Txt_MSc}, sem \in {1, 2},
        sim \in BOOLEAN, d \in {1, 2},
        i \in {Interval(T(8, 0), T(10, 0)), Interval(T(10, 0), T(11, 0))}}

\* The row of a new class: day 1, Garcia, MBA, 09:00-10:00 or 10:00-12:00, either
\* semester, with and without simultaneity.
NewRows ==
    {Row(Txt_NA, "Garcia", Txt_MBA, sem, sim, 1, i) :
        sem \in {1, 2}, sim \in BOOLEAN,
        i \in {Interval(T(9, 0), T(10, 0)), Interval(T(10, 0), T(12, 0))}}

SysIdle ==
    /\ db = <<>>
    /\ cache = <<>>
    /\ schedule_df = [u \in Users |-> <<>>]
    /\ last = Idle
    /\ loadFailed = FALSE

InitChecks ==
    /\ SysIdle
    /\ \/ \E df \in SeqsUpTo(SelfRows, MaxNew) :
             fn = [call |-> "check_self_overlap", df |-> df, existing_df |-> <<>>,
                   done |-> FALSE, result |-> <<>>]
       \/ \E row \in NewRows, existing_df \in SeqsFrom0(ExistingRows, MaxExisting) :
             fn = [call |-> "check_db_conflicts", df |-> <<row>>, existing_df |-> existing_df,
                   done |-> FALSE, result |-> <<>>]

RunSelfOverlap ==
    /\ fn.call = "check_self_overlap"
    /\ ~fn.done
    /\ fn' = [fn EXCEPT !.done = TRUE, !.result = check_self_overlap(fn.df)]
    /\ UNCHANGED <<db, cache, schedule_df, last, loadFailed>>

RunDbConflicts ==
    /\ fn.call = "check_db_conflicts"
    /\ ~fn.done
    /\ fn' = [fn EXCEPT !.done = TRUE, !.result = check_db_conflicts(fn.df, fn.existing_df)]
    /\ UNCHANGED <<db, cache, schedule_df, last, loadFailed>>

NextChecks == RunSelfOverlap \/ RunDbConflicts

SpecChecks == InitChecks /\ [][NextChecks]_vars

----------------------------------------------------------------------------
(* Properties of the validation functions *)

\* The overlap test as the specification states it.
OverlapTest(a, b) ==
    /\ a.Fecha = b.Fecha
    /\ a.HoraInicio < b.HoraFin
    /\ b.HoraInicio < a.HoraFin

Abut(a, b) == a.HoraFin = b.HoraInicio \/ b.HoraFin = a.HoraInicio

SelfDone == fn.call = "check_self_overlap" /\ fn.done

DbDone == fn.call = "check_db_conflicts" /\ fn.done

CountKind(conflicts, kind) ==
    Cardinality({k \in 1..Len(conflicts) : conflicts[k].kind = kind})

\* C1: the overlap predicate of check_self_overlap and of check_db_conflicts is
\* true for two sessions exactly when their dates are equal and start_a < end_b
\* and start_b < end_a: check_self_overlap reports the pair (i, j) exactly then,
\* and a snapshot row passes the day filter and the time filter of
\* check_db_conflicts exactly then; never for two sessions on different dates,
\* never for two sessions of which one ends when the other starts.
C1_OverlapPredicate ==
    /\ SelfDone =>
          \A i \in 1..Len(fn.df), j \in 1..Len(fn.df) :
             i < j =>
                LET reported == \E k \in 1..Len(fn.result) :
                                   fn.result[k].s1 = i /\ fn.result[k].s2 = j
                IN  /\ reported <=> OverlapTest(fn.df[i], fn.df[j])
                    /\ fn.df[i].Fecha # fn.df[j].Fecha => ~reported
                    /\ fn.df[i].HoraInicio < fn.df[i].HoraFin
                         /\ fn.df[j].HoraInicio < fn.df[j].HoraFin
                         /\ Abut(fn.df[i], fn.df[j]) => ~reported
    /\ DbDone =>
          LET row == fn.df[1]
              day_schedule == DaySchedule(fn.existing_df, row)
          IN  /\ \A e \in Range(fn.existing_df) :
                    (e \in Range(day_schedule) /\ TimesCross(e, row)) <=> OverlapTest(e, row)
              /\ CountKind(fn.result, "Profesor") > 0 <=>
                    \E e \in Range(fn.existing_df) :
                       e.Profesor = row.Profesor /\ OverlapTest(e, row)

\* Two submitted sessions on the same day, the second starting when the first
\* ends, and check_self_overlap has reported nothing.
C1_Witness ==
    /\ SelfDone
    /\ Len(fn.df) = 2
    /\ fn.df[1].Fecha = fn.df[2].Fecha
    /\ fn.df[1].HoraInicio < fn.df[1].HoraFin
    /\ fn.df[1].HoraFin = fn.df[2].HoraInicio
    /\ fn.result = <<>>

\* C5: for a new session check_db_conflicts reports exactly one instructor
\* conflict when the snapshot holds at least one session with the same date, the
\* same instructor and an overlapping interval, and none otherwise, whatever the
\* simultaneity flags, programs and semesters are.
C5_InstructorConflictCount ==
    DbDone =>
       LET row == fn.df[1]
           matches == \E e \in Range(fn.existing_df) :
                         /\ e.Fecha = row.Fecha
                         /\ e.Profesor = row.Profesor
                         /\ OverlapTest(e, row)
       IN  CountKind(fn.result, "Profesor") = IF matches THEN 1 ELSE 0

\* A new class that allows simultaneity against a snapshot with two sessions of
\* its instructor that overlap it, in another program and allowing simultaneity:
\* one instructor conflict reported.
C5_Witness ==
    /\ DbDone
    /\ fn.df[1].Simultaneo
    /\ Len(fn.existing_df) = 2
    /\ \A k \in 1..2 :
          /\ fn.existing_df[k].Profesor = fn.df[1].Profesor
          /\ fn.existing_df[k].Programa # fn.df[1].Programa
          /\ fn.existing_df[k].Simultaneo
          /\ OverlapTest(fn.existing_df[k], fn.df[1])
    /\ CountKind(fn.result, "Profesor") = 1

\* C6: for a new session check_db_conflicts reports a cohort conflict if and only
\* if the new class has simultaneity disabled and the snapshot holds a session
\* with the same date, program and semester, an overlapping interval and
\* simultaneity disabled.
C6_CohortConflict ==
    DbDone =>
       LET row == fn.df[1]
           matches == \E e \in Range(fn.existing_df) :
                         /\ e.Fecha = row.Fecha
                         /\ e.Programa = row.Programa
                         /\ e.Semestre = row.Semestre
                         /\ OverlapTest(e, row)
                         /\ ~e.Simultaneo
       IN  CountKind(fn.result, "Estudiantes") > 0 <=> (~row.Simultaneo /\ matches)

\* A new class with simultaneity disabled whose only colliding session of the
\* same program and semester allows simultaneity and has another instructor:
\* nothing is reported.
C6_Witness ==
    /\ DbDone
    /\ ~fn.df[1].Simultaneo
    /\ Len(fn.existing_df) = 1
    /\ fn.existing_df[1].Programa = fn.df[1].Programa
    /\ fn.existing_df[1].Semestre = fn.df[1].Semestre
    /\ fn.existing_df[1].Profesor # fn.df[1].Profesor
    /\ OverlapTest(fn.existing_df[1], fn.df[1])
    /\ fn.existing_df[1].Simultaneo
    /\ fn.result = <<>>

\* The pairs i < j of rows of df that the overlap test holds for.
OverlappingPairs(df) ==
    {p \in (1..Len(df)) \X (1..Len(df)) : p[1] < p[2] /\ OverlapTest(df[p[1]], df[p[2]])}

\* Pair p comes before pair q: by first index, then by second.
PairBefore(p, q) == p[1] < q[1] \/ (p[1] = q[1] /\ p[2] < q[2])

\* C12: check_self_overlap returns one conflict for each pair i < j of submitted
\* sessions that overlap on date, start and end, and none for any other pair, by
\* i ascending and then j ascending; the result is the same whatever the
\* instructors and modules of the sessions are, and empty for a single session.
C12_SelfOverlapPairs ==
    SelfDone =>
       LET df == fn.df
           res == fn.result
           pair(k) == <<res[k].s1, res[k].s2>>
       IN  /\ \A k \in 1..Len(res) : res[k].kind = "Interno" /\ pair(k) \in OverlappingPairs(df)
           /\ \A p \in OverlappingPairs(df) :
                 Cardinality({k \in 1..Len(res) : pair(k) = p}) = 1
           /\ \A k \in 1..Len(res), l \in 1..Len(res) : k < l => PairBefore(pair(k), pair(l))
           /\ \A p \in {"Garcia", "Lopez"}, mod \in {1, 2} :
                 check_self_overlap([k \in 1..Len(df) |->
                                        [df[k] EXCEPT !.Profesor = p, !.Modulo = mod]]) = res
           /\ Len(df) = 1 => res = <<>>

\* Three submitted sessions of which the first two have different instructors
\* and every two overlap: three conflicts, for (1,2), (1,3), (2,3) in that order.
C12_Witness ==
    /\ SelfDone
    /\ Len(fn.df) = 3
    /\ fn.df[1].Profesor # fn.df[2].Profesor
    /\ Len(fn.result) = 3
    /\ fn.result[2].s1 = 1 /\ fn.result[2].s2 = 3

----------------------------------------------------------------------------
(* check_db_conflicts run alone on lists of new sessions *)

\* Rows of a new class of Garcia, MBA semester 1, on day 1: 09:00-10:00 with and
\* without simultaneity, 10:00-12:00 without.
NewListRows ==
    {Row(Txt_NA, "Garcia", Txt_MBA, 1, sim, 1, Interval(T(9, 0), T(10, 0))) : sim \in BOOLEAN}
    \cup {Row(Txt_NA, "Garcia", Txt_MBA, 1, FALSE, 1, Interval(T(10, 0), T(12, 0)))}

\* Rows of the snapshot on day 1, MBA semester 1: either title, either
\* instructor, with and without simultaneity, 08:00-10:00 or 10:00-11:00.
ExistingListRows ==
    {Row(n, p, Txt_MBA, 1, sim, 1, i) :
        n \in {Txt_Algebra, Txt_Algebra2}, p \in {"Garcia", "Lopez"}, sim \in BOOLEAN,
        i \in {Interval(T(8, 0), T(10, 0)), Interval(T(10, 0), T(11, 0))}}

InitConflictLists ==
    /\ SysIdle
    /\ \E df \in SeqsUpTo(NewListRows, MaxNew),
          existing_df \in SeqsFrom0(ExistingListRows, MaxExisting) :
          fn = [call |-> "check_db_conflicts", df |-> df, existing_df |-> existing_df,
                done |-> FALSE, result |-> <<>>]

NextConflictLists == RunDbConflicts

SpecConflictLists == InitConflictLists /\ [][NextConflictLists]_vars

\* The least element of a non-empty set of numbers.
Least(S) == CHOOSE i \in S : \A j \in S : i <= j

\* The positions in the snapshot of the sessions that match the new session by
\* the instructor rule and by the cohort rule.
InstructorMatches(row, existing_df) ==
    {i \in 1..Len(existing_df) :
        /\ existing_df[i].Profesor = row.Profesor
        /\ OverlapTest(existing_df[i], row)}

CohortMatches(row, existing_df) ==
    {i \in 1..Len(existing_df) :
        /\ ~row.Simultaneo
        /\ existing_df[i].Programa = row.Programa
        /\ existing_df[i].Semestre = row.Semestre
        /\ OverlapTest(existing_df[i], row)
        /\ ~existing_df[i].Simultaneo}

\* A conflict names session e of the snapshot.
Names(c, e) ==
    c.Nombre = e.Nombre /\ c.HoraInicio = e.HoraInicio /\ c.HoraFin = e.HoraFin

\* C13: for each new session check_db_conflicts reports at most one instructor
\* conflict and at most one cohort conflict, and each names the matching session
\* that comes first in the snapshot's order.
C13_FirstMatchReported ==
    DbDone =>
       /\ CountKind(fn.result, "Profesor") <= Len(fn.df)
       /\ CountKind(fn.result, "Estudiantes") <= Len(fn.df)
       /\ Len(fn.df) = 1 =>
             LET row == fn.df[1]
                 im == InstructorMatches(row, fn.existing_df)
                 cm == CohortMatches(row, fn.existing_df)
             IN  /\ CountKind(fn.result, "Profesor") = IF im = {} THEN 0 ELSE 1
                 /\ CountKind(fn.result, "Estudiantes") = IF cm = {} THEN 0 ELSE 1
                 /\ \A k \in 1..Len(fn.result) :
                       /\ fn.result[k].kind = "Profesor" =>
                             Names(fn.result[k], fn.existing_df[Least(im)])
                       /\ fn.result[k].kind = "Estudiantes" =>
                             Names(fn.result[k], fn.existing_df[Least(cm)])

\* One new session against a snapshot of two sessions of its instructor that
\* both overlap it and have different titles: the first one is named.
C13_Witness ==
    /\ DbDone
    /\ Len(fn.df) = 1
    /\ InstructorMatches(fn.df[1], fn.existing_df) = {1, 2}
    /\ fn.existing_df[1].Nombre # fn.existing_df[2].Nombre
    /\ fn.result[1].kind = "Profesor"
    /\ fn.result[1].Nombre = fn.existing_df[1].Nombre

\* C14: check_db_conflicts treats the new sessions one by one in the order
\* given: the result for a list is the result for any front part of it followed
\* by the result for the rest, and among the findings of one session the
\* instructor conflict comes before the cohort conflict.
C14_PerSessionInOrder ==
    DbDone =>
       /\ \A n \in 0..Len(fn.df) :
             fn.result = check_db_conflicts(SubSeq(fn.df, 1, n), fn.existing_df)
                         \o check_db_conflicts(SubSeq(fn.df, n + 1, Len(fn.df)), fn.existing_df)
       /\ Len(fn.df) = 1 =>
             \A k \in 1..Len(fn.result), l \in 1..Len(fn.result) :
                k < l => fn.result[k].kind = "Profesor" /\ fn.result[l].kind = "Estudiantes"

\* Two new sessions, each with findings, the second with both an instructor
\* and a cohort conflict.
C14_Witness ==
    /\ DbDone
    /\ Len(fn.df) = 2
    /\ Len(fn.result) = 3
    /\ fn.result[1].kind = "Profesor"
    /\ fn.result[2].kind = "Profesor"
    /\ fn.result[3].kind = "Estudiantes"

----------------------------------------------------------------------------
(* The submit handler's decision run alone on bounded forms *)

MaxDur == 5

In_late == [Fecha |-> 1, hora_inicio |-> T(18, 30), duracion |-> 1]

Form(nombre, catalogo, descripcion, programa, sim, tipo, modulos) ==
    [nombre_clase |-> nombre, catalogo |-> catalogo, descripcion |-> descripcion,
     programa |-> programa, semestre |-> 1, simultaneo |-> sim,
     tipo_clase |-> tipo, modulos |-> modulos]

\* One Regular module: no instructor or Garcia; one session, the same session
\* twice, two sessions that abut, or a session that ends at 19:30.
RegularModulos ==
    {<<[Profesor |-> p, sesiones |-> ss]>> :
        p \in {"", "Garcia"},
        ss \in {<<In_a>>, <<In_a, In_a>>, <<In_a, In_b>>, <<In_late>>}}

\* Two modules of one session each, each with no instructor or one of two.
ModularModulos ==
    {<<[Profesor |-> p1, sesiones |-> <<In_a>>], [Profesor |-> p2, sesiones |-> <<s2>>]>> :
        p1 \in {"", "Garcia", "Lopez"}, p2 \in {"", "Garcia", "Lopez"}, s2 \in {In_a, In_b}}

\* Forms with each general field filled in or left empty.
GeneralForms ==
    {Form(n, c, d, g, FALSE, "Regular", m) :
        n \in {Txt_Algebra, <<>>}, c \in {Txt_M1, <<>>}, d \in {Txt_NA, <<>>},
        g \in {Txt_MBA, <<>>}, m \in RegularModulos}
    \cup
    {Form(n, c, d, g, FALSE, "Modular", m) :
        n \in {Txt_Algebra, <<>>}, c \in {Txt_M1, <<>>}, d \in {Txt_NA, <<>>},
        g \in {Txt_MBA, <<>>}, m \in ModularModulos}

\* Complete one-session forms with every start of get_time_options and every
\* duration of 1..MaxDur hours.
TimingForms ==
    {Form(Txt_Algebra, Txt_M1, Txt_NA, Txt_MBA, FALSE, "Regular",
          <<[Profesor |-> "Garcia",
             sesiones |-> <<[Fecha |-> 1, hora_inicio |-> t, duracion |-> h]>>]>>) :
        t \in Range(get_time_options), h \in 1..MaxDur}

\* Complete forms whose two sessions have the same date, start and duration, for
\* every start of get_time_options and every duration of 1..MaxDur hours.
RepeatForms ==
    {Form(Txt_Algebra, Txt_M1, Txt_NA, Txt_MBA, FALSE, "Regular",
          <<[Profesor |-> "Garcia",
             sesiones |-> <<[Fecha |-> 1, hora_inicio |-> t, duracion |-> h],
                            [Fecha |-> 1, hora_inicio |-> t, duracion |-> h]>>]>>) :
        t \in Range(get_time_options), h \in 1..MaxDur}

\* Complete forms of one session 09:00-10:00 on day 1, with either title and
\* either catalog code.
TitleForms ==
    {Form(n, c, Txt_NA, Txt_MBA, FALSE, "Regular",
          <<[Profesor |-> "Garcia", sesiones |-> <<In_b>>]>>) :
        n \in {Txt_Algebra, Txt_Algebra2}, c \in {Txt_M1, Txt_M10}}

\* The sessions of a class of n sessions on day d, 08:00-09:00, 09:00-10:00, ...
DaySessions(d, n) ==
    [k \in 1..n |-> [Fecha |-> d, hora_inicio |-> T(7 + k, 0), duracion |-> 1]]

\* Complete Modular forms of two modules with one or two sessions each, the
\* sessions of module i on day i, and the Regular form of ten sessions on day 2.
CounterForms ==
    {Form(Txt_Algebra, Txt_M1, Txt_NA, Txt_MBA, FALSE, "Modular",
          <<[Profesor |-> "Garcia", sesiones |-> DaySessions(1, n1)],
            [Profesor |-> "Lopez", sesiones |-> DaySessions(2, n2)]>>) :
        n1 \in {1, 2}, n2 \in {1, 2}}
    \cup {Form(Txt_Algebra, Txt_M1, Txt_NA, Txt_MBA, FALSE, "Regular",
                <<[Profesor |-> "Garcia", sesiones |-> DaySessions(2, 10)]>>)}

\* The snapshots the decision is taken against: empty, or the one session of
\* one of two committed classes.  The first: title 'N/A', catalog code M10, a
\* session of Garcia, MBA semester 1, 08:00-09:00 on day 1.
CommittedClass ==
    Form(Txt_NA, Txt_M10, Txt_NA, Txt_MBA, FALSE, "Regular",
         <<[Profesor |-> "Garcia", sesiones |-> <<In_a>>]>>)

\* The committed class 'Algebra' with catalog code M1: one session of Garcia,
\* MBA semester 1, 08:00-09:00 on day 1.
CommittedAlgebra ==
    Form(Txt_Algebra, Txt_M1, Txt_NA, Txt_MBA, FALSE, "Regular",
         <<[Profesor |-> "Garcia", sesiones |-> <<In_a>>]>>)

Snapshots ==
    {<<>>, Loaded(Stored(Records(CommittedClass, SesionesData(CommittedClass)))),
     Loaded(Stored(Records(CommittedAlgebra, SesionesData(CommittedAlgebra))))}

InitValidate ==
    /\ SysIdle
    /\ \E f \in GeneralForms \cup TimingForms \cup RepeatForms \cup TitleForms \cup CounterForms,
          existing_df \in Snapshots :
          fn = [call |-> "validate", form |-> f, existing_df |-> existing_df,
                done |-> FALSE, result |-> <<>>]

RunValidate ==
    /\ fn.call = "validate"
    /\ ~fn.done
    /\ fn' = [fn EXCEPT !.done = TRUE, !.result = Validate(fn.form, fn.existing_df)]
    /\ UNCHANGED <<db, cache, schedule_df, last, loadFailed>>

NextValidate == RunValidate

SpecValidate == InitValidate /\ [][NextValidate]_vars

ValidateDone == fn.call = "validate" /\ fn.done

\* C4: every session that reaches the self check, and so every session handed
\* to the insert, ends strictly after it starts.
C4_EndAfterStart ==
    ValidateDone =>
       /\ "check_self_overlap" \in Range(fn.result.calls) =>
             \A s \in Range(SesionesData(fn.form)) : s.HoraFin > s.HoraInicio
       /\ \A r \in Range(fn.result.final_df) : r.HoraFin > r.HoraInicio

\* The preconditions as the claim lists them.
PreconditionFails(f) ==
    \/ f.nombre_clase = <<>>
    \/ f.catalogo = <<>>
    \/ f.descripcion = <<>>
    \/ f.programa = <<>>
    \/ \E s \in Range(SesionesData(f)) : s.Profesor = "" \/ s.HoraFin > T(19, 0)

\* C7: the phases run in the order preconditions, self check, repository check,
\* accept, each only if every earlier one passed: after a failed precondition
\* neither check was called and no conflict is reported; after a self check with
\* findings check_db_conflicts was not called and only the findings of the self
\* check are reported; check_db_conflicts is called only after the preconditions
\* and the self check passed, and rows are handed to the insert only after it
\* found nothing.
C7_PhaseOrder ==
    ValidateDone =>
       LET f == fn.form
           d == fn.result
           self == check_self_overlap(SesionesData(f))
       IN  /\ PreconditionFails(f) =>
                 /\ d.outcome \in {"general", "late", "profesor"}
                 /\ d.calls = <<>>
                 /\ d.self_conflicts = <<>> /\ d.db_conflicts = <<>> /\ d.final_df = <<>>
           /\ ~PreconditionFails(f) /\ self # <<>> =>
                 /\ d.outcome = "self"
                 /\ d.calls = <<"check_self_overlap">>
                 /\ d.self_conflicts = self /\ d.db_conflicts = <<>> /\ d.final_df = <<>>
           /\ ~PreconditionFails(f) /\ self = <<>> =>
                 /\ d.calls = <<"check_self_overlap", "check_db_conflicts">>
                 /\ d.outcome \in {"db", "insert"}
                 /\ d.outcome = "insert" <=> d.db_conflicts = <<>>
                 /\ d.outcome = "insert" <=> d.final_df # <<>>

\* A class whose two sessions overlap each other and also collide with the
\* committed session of the same instructor: rejected by the self check, with
\* check_db_conflicts not called and no repository conflict reported.
C7_Witness ==
    /\ ValidateDone
    /\ fn.result.outcome = "self"
    /\ check_db_conflicts(Records(fn.form, SesionesData(fn.form)), fn.existing_df) # <<>>
    /\ fn.result.calls = <<"check_self_overlap">>
    /\ fn.result.db_conflicts = <<>>

\* C15: in every accepted class any two sessions differ in date or in time
\* interval: the rows handed to the insert never hold two sessions with the same
\* date, start time and end time.
C15_SessionsDiffer ==
    ValidateDone =>
       \A i \in 1..Len(fn.result.final_df), j \in 1..Len(fn.result.final_df) :
          i < j =>
             \/ fn.result.final_df[i].Fecha # fn.result.final_df[j].Fecha
             \/ fn.result.final_df[i].HoraInicio # fn.result.final_df[j].HoraInicio
             \/ fn.result.final_df[i].HoraFin # fn.result.final_df[j].HoraFin

\* The group key of a row: its identifier without the sequence suffix "-S<n>".
GroupKey(r) == SubSeq(r.ID, 1, Len(r.ID) - Len(<<"-", "S">> \o Digits(r.Sesion)))

\* C16: the identifier of an accepted session is the group key of its class
\* followed by the sequence suffix, and the group key identifies the class: a
\* session of an accepted class and a committed session of a class with another
\* catalog code or another title have different identifiers and different group
\* keys.
C16_GroupKeyIdentifiesClass ==
    ValidateDone =>
       \A r \in Range(fn.result.final_df) :
          /\ r.ID = GroupKey(r) \o <<"-", "S">> \o Digits(r.Sesion)
          /\ \A e \in Range(fn.existing_df) :
                (e.Catalogo # r.Catalogo \/ e.Nombre # r.Nombre) =>
                   e.ID # r.ID /\ GroupKey(e) # GroupKey(r)

\* C17: the sessions of one submission carry the sequence numbers 1..n in
\* submission order, in the Regular mode and in the Modular mode, where the
\* numbers run on across the modules; so do the rows handed to the insert, whose
\* identifiers are pairwise distinct.
C17_SequenceNumbers ==
    ValidateDone =>
       LET sesiones_data == SesionesData(fn.form)
           final_df == fn.result.final_df
       IN  /\ \A k \in 1..Len(sesiones_data) : sesiones_data[k].Sesion = k
           /\ Len(sesiones_data) = Len(Concat([i \in 1..Len(fn.form.modulos) |->
                                                  fn.form.modulos[i].sesiones]))
           /\ \A k \in 1..Len(final_df) : final_df[k].Sesion = k
           /\ \A k \in 1..Len(final_df), l \in 1..Len(final_df) :
                 k # l => final_df[k].ID # final_df[l].ID

\* An accepted Modular class of two modules of two sessions each: the first
\* session of the second module has number 3.
C17_Witness ==
    /\ ValidateDone
    /\ fn.form.tipo_clase = "Modular"
    /\ fn.result.outcome = "insert"
    /\ Len(fn.result.final_df) = 4
    /\ fn.result.final_df[3].Modulo = 2
    /\ fn.result.final_df[3].Sesion = 3

\* The start times 07:00, 07:30, ..., 19:00.
HalfHours == {T(7, 0) + 30 * k : k \in 0..24}

\* C20: every session handed to the insert starts at one of the times 07:00,
\* 07:30, ..., 19:00 and has an end time of day not later than 19:00; a
\* submission with a session whose end time is after 19:00 is rejected before
\* the self check and nothing of it is handed to the insert.
C20_WithinOpeningHours ==
    ValidateDone =>
       /\ \A r \in Range(fn.result.final_df) :
             r.HoraInicio \in HalfHours /\ r.HoraFin <= T(19, 0)
       /\ (\E s \in Range(SesionesData(fn.form)) : s.HoraFin > T(19, 0)) =>
             /\ fn.result.outcome \in {"general", "late"}
             /\ fn.result.calls = <<>>
             /\ fn.result.final_df = <<>>

\* A class whose session starts at 18:00 and lasts one hour is handed to the
\* insert with the end time 19:00.
C20_Witness ==
    /\ ValidateDone
    /\ fn.result.outcome = "insert"
    /\ fn.result.final_df[1].HoraInicio = T(18, 0)
    /\ fn.result.final_df[1].HoraFin = T(19, 0)

----------------------------------------------------------------------------
(* The delete handler's request run alone on bounded schedules *)

MaxClasses == 2

\* Classes by catalog code, title, program and number of sessions, all on day d.
ClassesOn(d) ==
    {Form(n, c, Txt_NA, g, FALSE, "Regular",
          <<[Profesor |-> "Garcia", sesiones |-> DaySessions(d, k)]>>) :
        n \in {Txt_Algebra, Txt_Algebra2}, c \in {Txt_M1, Txt_M10},
        g \in {Txt_MBA, Txt_MSc}, k \in {1, 2}}

\* The table after the classes of the list were accepted one after the other.
TableOf(classes) ==
    Concat([k \in 1..Len(classes) |-> Stored(Records(classes[k], SesionesData(classes[k])))])

\* Lists of 1..MaxClasses classes, the k-th on day k.
ClassLists ==
    UNION {{cs \in [1..n -> UNION {ClassesOn(d) : d \in 1..MaxClasses}] :
               \A k \in 1..n : cs[k] \in ClassesOn(k)} : n \in 1..MaxClasses}

InitDelete ==
    /\ SysIdle
    /\ \E cs \in ClassLists :
          \E c \in ClassOptionsDelete(Loaded(TableOf(cs))) :
             fn = [call |-> "delete", table |-> TableOf(cs), choice |-> c,
                   done |-> FALSE, result |-> <<>>]

RunDelete ==
    /\ fn.call = "delete"
    /\ ~fn.done
    /\ fn' = [fn EXCEPT !.done = TRUE, !.result = DeleteClass(fn.table, fn.choice)]
    /\ UNCHANGED <<db, cache, schedule_df, last, loadFailed>>

NextDelete == RunDelete

SpecDelete == InitDelete /\ [][NextDelete]_vars

\* C8: deleting a class removes every session of that class and no session of
\* any other class: what is left is the rows of the other classes, in order.
C8_DeleteExactlyTheClass ==
    fn.call = "delete" /\ fn.done =>
       LET Other(r) == ClassDisplay(ClassOf(r)) # fn.choice
       IN  fn.result = SelectSeq(fn.table, Other)

----------------------------------------------------------------------------
(* Properties of the system *)

\* Rows i and j of a table have the same instructor and date and overlap.
DoubleBooked(table, i, j) ==
    /\ table[i].Profesor = table[j].Profesor
    /\ OverlapTest(table[i], table[j])

\* C2: the committed schedule never contains two sessions with the same
\* instructor on the same date whose time intervals overlap.
C2_NoInstructorDoubleBooking ==
    \A i \in 1..Len(db), j \in 1..Len(db) :
       i < j => ~DoubleBooked(Loaded(db), i, j)

\* C3: the sessions of an accepted class are appended together: a step that
\* adds rows to the committed schedule adds all the rows of the submitted class,
\* in order and after the rows already there, and a submission whose insert
\* fails or that is rejected adds none.
C3_InsertAllOrNothing ==
    [][/\ Len(db') > Len(db) =>
             /\ last'.op = "submit" /\ last'.outcome = "saved"
             /\ last'.final_df # <<>>
             /\ db' = db \o Stored(last'.final_df)
       /\ last'.op = "submit" /\ last'.outcome # "saved" => db' = db]_vars

\* A class of two sessions was accepted and both its rows are the last two rows
\* of the committed schedule.
C3_Witness ==
    /\ last.op = "submit" /\ last.outcome = "saved"
    /\ Len(last.final_df) = 2
    /\ Len(db) >= 2
    /\ SubSeq(db, Len(db) - 1, Len(db)) = Stored(last.final_df)

Rejected == {"general", "late", "profesor", "self", "db"}

\* C10: a submission that ends rejected leaves the committed schedule and every
\* session's snapshot as they were, and the only submissions that change either
\* are the accepted ones.
C10_RejectedChangesNothing ==
    [][/\ last'.op = "submit" /\ last'.outcome \in Rejected =>
             db' = db /\ schedule_df' = schedule_df
       /\ last'.op = "submit" /\ (db' # db \/ schedule_df' # schedule_df) =>
             last'.outcome = "saved"]_vars

\* A submission was rejected for a conflict with the committed schedule, which
\* holds a session.
C10_Witness ==
    /\ last.op = "submit" /\ last.outcome = "db"
    /\ db # <<>>
    /\ \E u \in Users : schedule_df[u] # <<>> /\ schedule_df[u][1] = Loaded(db)

\* C11: when the insert fails after both checks passed, the run ends in the
\* persistence-error outcome, which is none of the rejections and not success;
\* it lists no conflict, and the committed schedule and every session's
\* snapshot are as before.  Success is reported only by a run that added
\* rows, and conflicts are listed only by the rejections of the two checks.
C11_PersistenceErrorDistinct ==
    [][/\ last'.op = "submit" /\ last'.outcome = "save_error" =>
             /\ last'.outcome \notin Rejected \cup {"saved"}
             /\ last'.conflicts = 0
             /\ last'.final_df # <<>>
             /\ db' = db /\ schedule_df' = schedule_df
       /\ last'.op = "submit" /\ last'.outcome = "saved" /\ last' # last =>
             Len(db') > Len(db)
       /\ last'.op = "submit" /\ last'.conflicts > 0 =>
             last'.outcome \in {"self", "db"}]_vars

\* The insert of a class failed while the committed schedule holds a session
\* the class does not collide with.
C11_Witness ==
    /\ last.op = "submit" /\ last.outcome = "save_error"
    /\ last.final_df # <<>>
    /\ db # <<>>
    /\ \E u \in Users : schedule_df[u] # <<>> /\ schedule_df[u][1] = Loaded(db)

----------------------------------------------------------------------------
(* One user session on a table that may already hold a class *)

\* The table when the session starts: empty, or the one session of the
\* committed class 'Algebra' (Garcia, MBA semester 1, day 1, 08:00-09:00).
InitialTables ==
    {<<>>, Stored(Records(CommittedAlgebra, SesionesData(CommittedAlgebra)))}

InitSingle ==
    /\ db \in InitialTables
    /\ cache = <<>>
    /\ schedule_df = [u \in Users |-> <<>>]
    /\ last = Idle
    /\ loadFailed = FALSE
    /\ fn = FnIdle

\* The script runs of user session u1 alone: the request of the first load may
\* fail, the reloads after an insert or a delete succeed.
NextSingle ==
    \/ \E load_ok \in BOOLEAN : StartSession("u1", load_ok)
    \/ CacheExpire
    \/ \E f \in Forms, insert_ok \in BOOLEAN : Submit("u1", f, insert_ok, TRUE)
    \/ \E delete_ok \in BOOLEAN :
          /\ schedule_df["u1"] # <<>>
          /\ \E c \in ClassOptionsDelete(schedule_df["u1"][1]) : Delete("u1", c, delete_ok, TRUE)

SpecSingle == InitSingle /\ [][NextSingle]_vars

\* Two sessions that check_db_conflicts flags against each other.
Flagged(a, b) ==
    /\ OverlapTest(a, b)
    /\ \/ a.Profesor = b.Profesor
       \/ /\ a.Programa = b.Programa
          /\ a.Semestre = b.Semestre
          /\ ~a.Simultaneo /\ ~b.Simultaneo

\* A step adds rows of which one is flagged against a row already there.
AddsFlaggedPair ==
    /\ Len(db') > Len(db)
    /\ \E k \in (Len(db) + 1)..Len(db'), i \in 1..Len(db) :
          Flagged(Loaded(db')[k], Loaded(db')[i])

----------------------------------------------------------------------------
(* A submission after the first load of the session *)

\* The forms submitted: the general fields filled in or not, Regular and
\* Modular, and the one-session forms of either title and catalog code.
LoadForms == GeneralForms \cup TitleForms

InitLoadSubmit ==
    /\ db \in InitialTables
    /\ cache = <<>>
    /\ schedule_df = [u \in Users |-> <<>>]
    /\ last = Idle
    /\ loadFailed = FALSE
    /\ \E f \in LoadForms : fn = [call |-> "submit", form |-> f]

\* The form is submitted in the script run after the one that loaded the snapshot.
SubmitLoaded(insert_ok, load_ok) ==
    /\ last.op = "start"
    /\ Submit("u1", fn.form, insert_ok, load_ok)

NextLoadSubmit ==
    \/ \E load_ok \in BOOLEAN : StartSession("u1", load_ok)
    \/ \E insert_ok \in BOOLEAN, load_ok \in BOOLEAN : SubmitLoaded(insert_ok, load_ok)

SpecLoadSubmit == InitLoadSubmit /\ [][NextLoadSubmit]_vars

\* The form passes the preconditions and the self check.
PassesOwnChecks(f) ==
    ~PreconditionFails(f) /\ check_self_overlap(SesionesData(f)) = <<>>

\* C19: a failed load leaves the session with an empty snapshot, and a
\* submission against it that passes the preconditions and the self check is
\* handed to the insert with no repository conflict reported, whatever the
\* committed schedule holds: the rows are appended when the request succeeds.
C19_FailedLoadIsEmptySchedule ==
    [][/\ loadFailed' /\ ~loadFailed => schedule_df'["u1"] = << <<>> >>
       /\ loadFailed /\ last.op = "start" /\ last'.op = "submit" =>
             /\ last'.outcome # "db"
             /\ PassesOwnChecks(fn.form) =>
                   /\ last'.conflicts = 0
                   /\ last'.outcome \in {"saved", "save_error"}
                   /\ last'.final_df = Records(fn.form, SesionesData(fn.form))
                   /\ last'.outcome = "saved" => db' = db \o Stored(last'.final_df)
                   /\ last'.outcome = "save_error" => db' = db
             /\ ~PassesOwnChecks(fn.form) => db' = db]_vars

\* After a failed load a class was inserted whose session is flagged against
\* the session the committed schedule held.
C19_Witness ==
    /\ loadFailed
    /\ last.op = "submit" /\ last.outcome = "saved"
    /\ Len(db) = 2
    /\ Flagged(Loaded(db)[1], Loaded(db)[2])

====
